---- MODULE Spec2Model ----
(***************************************************************************)
(* A model of the quiz-api request handlers (FastAPI + SQLAlchemy async    *)
(* sessions over PostgreSQL).                                              *)
(*                                                                         *)
(* The persistent state is the four tables of app/models.py.  Every HTTP   *)
(* request runs in its own AsyncSession (app/database.py get_db): objects  *)
(* given to db.add() stay in that session until `await db.commit()`, which *)
(* applies all of them in one transaction or none of them; a handler that  *)
(* raises leaves the session uncommitted and the session is closed, which  *)
(* rolls it back.  Handlers of different requests interleave at their      *)
(* `await` points (and between worker processes).                          *)
(*                                                                         *)
(* The specifications share the handlers' actions and differ in the        *)
(* requests they admit: SpecIngest (uploads, interleaved), SpecIngestSeq   *)
(* (uploads, one at a time), SpecQuiz (uploads and quiz creations,         *)
(* interleaved), SpecGrade (an upload alone; a quiz creation and a         *)
(* submission interleaved, two calls of the same handler never),           *)
(* SpecSearch (an upload and a search interleaved), SpecRead (a quiz       *)
(* creation and a get_quiz interleaved, listings alone), SpecAnalytics     *)
(* (requests one at a time, the clock standing still) and                  *)
(* SpecAnalyticsDates (requests one at a time, the clock ticking between   *)
(* them).                                                                  *)
(* Requests are well-formed: one file per upload form, answers that hold   *)
(* both of their keys; text extraction does not fail.                      *)
(*                                                                         *)
(* Python strings that the code formats or parses (file ids) are sequences *)
(* of one-character strings; strings that the code only compares or copies *)
(* are TLA+ strings.  uuid.uuid4() is a value not in use anywhere.         *)
(***************************************************************************)
EXTENDS Integers, Sequences, FiniteSets, TLC

VARIABLES
    documents,    \* table documents, in insertion order (models.py Document)
    quizzes,      \* table quizzes (models.py Quiz)
    questions,    \* table questions (models.py Question)
    submissions,  \* table quiz_submissions (models.py Submission)
    pc,           \* pc[r]: where the handler of request slot r stands
    local,        \* local[r]: the local variables of that handler
    resp,         \* resp[r]: the HTTP response of a finished handler
    written,      \* written[r]: history, the number of rows the call in slot r
                  \* has committed so far
    now           \* the clock of the database server: a day and a time of day

vars == <<documents, quizzes, questions, submissions, pc, local, resp, written,
          now>>

----------------------------------------------------------------------------
(* Bounds of the model *)

\* Number of request slots: handlers that may be in flight at the same time.
NReq == 2
\* Cap on the rows of table documents (concurrent specification).
MaxDocs == 2
\* Cap on the rows of table documents in the one-request-at-a-time specification.
MaxDocsSeq == 10

\* Cap on the rows of table documents in the quiz and grading specifications.
MaxQuizDocs == 1
\* Cap on the rows of table quizzes.
MaxQuizzes == 1
\* Largest number of questions requested for a quiz, and of entries generated.
MaxQuestions == 2
\* Cap on the rows of table quizzes in the grading specification.
MaxGradedQuizzes == 2
\* Largest number of answers in one submission.
MaxAnswers == 2
\* Cap on the rows of table quiz_submissions.
MaxSubmissions == 2
\* Cap on the rows of table documents in the search specification.
MaxSearchDocs == 3
\* Largest page number and largest page size asked of a search.
MaxPage == 3
MaxLimit == 2
\* Cap on the rows of table quizzes in the reading specification.
MaxReadQuizzes == 2
\* Cap on the rows of table quiz_submissions in the analytics specification.
MaxAnalysedSubmissions == 10
\* The last day and the last time of day that the clock reaches.
MaxDay == 2
MaxTimeOfDay == 1

Req == 1..NReq

NoLocal == [h |-> "none"]
NoResp == [status |-> 0]

----------------------------------------------------------------------------
(* Python string helpers, on sequences of characters *)

Digits == <<"0", "1", "2", "3", "4", "5", "6", "7", "8", "9">>

DigitChar(d) == Digits[d + 1]

DigitVal(c) == CHOOSE d \in 0..9 : Digits[d + 1] = c

\* str(n) for n >= 0
RECURSIVE PyStr(_)
PyStr(n) == IF n < 10 THEN <<DigitChar(n)>>
          ELSE PyStr(n \div 10) \o <<DigitChar(n % 10)>>

\* s.zfill(w): pad with "0" on the left up to width w, never truncate
RECURSIVE Zfill(_, _)
Zfill(s, w) == IF Len(s) >= w THEN s ELSE Zfill(<<"0">> \o s, w)

\* s.replace(old, new): every non-overlapping occurrence, left to right
RECURSIVE Replace(_, _, _)
Replace(s, old, new) ==
    IF Len(s) < Len(old) THEN s
    ELSE IF SubSeq(s, 1, Len(old)) = old
         THEN new \o Replace(SubSeq(s, Len(old) + 1, Len(s)), old, new)
         ELSE <<Head(s)>> \o Replace(Tail(s), old, new)

\* int(s) for a string of decimal digits
RECURSIVE PyInt(_)
PyInt(s) == IF Len(s) = 1 THEN DigitVal(s[1])
          ELSE 10 * PyInt(SubSeq(s, 1, Len(s) - 1)) + DigitVal(s[Len(s)])

\* max(S, default=0)
MaxDefault0(S) == IF S = {} THEN 0 ELSE CHOOSE m \in S : \A x \in S : x <= m

FilePrefix == <<"f", "i", "l", "e">>

----------------------------------------------------------------------------
(* upload_file: POST /api/files/upload *)

AllowedTypes == {"text/plain", "application/pdf",
                 "application/vnd.openxmlformats-officedocument.wordprocessingml.document"}

\* int(file_id.replace("file", "")) for every stored file_id
ExistingIds(docs) ==
    {PyInt(Replace(docs[i].file_id, FilePrefix, <<>>)) : i \in 1..Len(docs)}

NextId(docs) == MaxDefault0(ExistingIds(docs)) + 1

\* Mutant: the identifier formatted without padding to three digits.
CustomFileIdNoPad(next_id) == FilePrefix \o PyStr(next_id)

\* f"file{str(next_id).zfill(3)}"
CustomFileId(next_id) == FilePrefix \o Zfill(PyStr(next_id), 3)

\* The request arrives: the form is parsed and the content type validated.
UploadBegin(r, names, types, cap) ==
    /\ pc[r] = "idle"
    /\ Len(documents) < cap
    /\ \E name \in names, ctype \in types :
         IF ctype \notin AllowedTypes
         THEN /\ pc' = [pc EXCEPT ![r] = "done"]
              /\ local' = [local EXCEPT ![r] = [h |-> "upload", filename |-> name,
                                                content_type |-> ctype]]
              /\ resp' = [resp EXCEPT ![r] = [status |-> 400,
                                              detail |-> "Unsupported file type"]]
         ELSE /\ pc' = [pc EXCEPT ![r] = "up_select"]
              /\ local' = [local EXCEPT ![r] = [h |-> "upload", filename |-> name,
                                                content_type |-> ctype]]
              /\ resp' = resp
    /\ UNCHANGED <<documents, quizzes, questions, submissions, written, now>>

\* await db.execute(select(Document.file_id)), then next_id and custom_file_id
UploadSelectIds(r) ==
    /\ pc[r] = "up_select"
    /\ pc' = [pc EXCEPT ![r] = "up_vector"]
    /\ local' = [local EXCEPT ![r] =
                   [h |-> "upload", filename |-> local[r].filename,
                    content_type |-> local[r].content_type,
                    custom_file_id |-> CustomFileId(NextId(documents))]]
    /\ UNCHANGED <<documents, quizzes, questions, submissions, resp, written,
                   now>>

\* await db.scalar(SELECT to_tsvector(...)), then db.add(new_document)
UploadVector(r) ==
    /\ pc[r] = "up_vector"
    /\ pc' = [pc EXCEPT ![r] = "up_commit"]
    /\ UNCHANGED <<documents, quizzes, questions, submissions, local, resp, written,
                   now>>

\* The text that extraction yields for the uploaded file.  The files that
\* clients upload are told apart by their name; any other file is empty.
FileContent(name) ==
    CASE name = "a.txt" -> <<"SEO", "quiz">>
      [] name = "b.txt" -> <<"the", "seo", "seo">>
      [] OTHER -> <<>>

\* Words that the text search configuration drops.
StopWords == {"the"}

\* The lexeme of a word: the text search parser folds case.
Lexeme(w) == IF w = "SEO" THEN "seo" ELSE w

\* SELECT to_tsvector(:text_content): every lexeme of the text with the
\* number of its positions.
ToTsvector(content) ==
    [l \in {Lexeme(content[i]) : i \in 1..Len(content)} \ StopWords |->
        Cardinality({i \in 1..Len(content) : Lexeme(content[i]) = l})]

NewDocument(r) == [file_id |-> local[r].custom_file_id,
                   name |-> local[r].filename,
                   file_type |-> local[r].content_type,
                   content |-> FileContent(local[r].filename),
                   search_vector |-> ToTsvector(FileContent(local[r].filename))]

\* Column file_id is unique=True: the INSERT of a second row with the same
\* file_id fails and the transaction is rolled back.
FileIdTaken(docs, fid) == \E i \in 1..Len(docs) : docs[i].file_id = fid

\* await db.commit(), then the response
UploadCommit(r) ==
    /\ pc[r] = "up_commit"
    /\ pc' = [pc EXCEPT ![r] = "done"]
    /\ IF FileIdTaken(documents, local[r].custom_file_id)
       THEN /\ documents' = documents
            /\ written' = written
            /\ resp' = [resp EXCEPT ![r] = [status |-> 500,
                                            detail |-> "IntegrityError"]]
       ELSE /\ documents' = Append(documents, NewDocument(r))
            /\ written' = [written EXCEPT ![r] = @ + 1]
            /\ resp' = [resp EXCEPT ![r] = [status |-> 200,
                                            file_id |-> local[r].custom_file_id]]
    /\ UNCHANGED <<quizzes, questions, submissions, local, now>>

\* The response has been sent; the slot is free for the next request.
Finish(r) ==
    /\ pc[r] = "done"
    /\ pc' = [pc EXCEPT ![r] = "idle"]
    /\ local' = [local EXCEPT ![r] = NoLocal]
    /\ resp' = [resp EXCEPT ![r] = NoResp]
    /\ written' = [written EXCEPT ![r] = 0]
    /\ UNCHANGED <<documents, quizzes, questions, submissions, now>>

----------------------------------------------------------------------------
(* Sessions, uuids *)

\* uuid.uuid4(): a value that is in use nowhere (collisions are not modelled).
RECURSIVE FreshFrom(_, _)
FreshFrom(used, n) == IF n \notin used THEN n ELSE FreshFrom(used, n + 1)

LocalUuids(l) == IF "uuids" \in DOMAIN l THEN l.uuids ELSE {}

UsedUuids ==
    {q.quiz_id : q \in quizzes}
        \cup {s.submission_id : s \in submissions}
        \cup {s.user_id : s \in submissions}
        \cup UNION {LocalUuids(local[r]) : r \in Req}

Uuid4 == FreshFrom(UsedUuids, 1)

\* The rows of one table among the objects a session holds (db.add, db.add_all).
PendingRows(pending, table) ==
    {pending[i].row : i \in {k \in 1..Len(pending) : pending[k].table = table}}

\* json.dumps(v): the column holds the serialized text, not the value.
JsonDumps(v) == [json |-> v]

\* Mutant: the handler commits what its session holds before it raises.
RaiseCommitting(r, status, detail) ==
    /\ pc' = [pc EXCEPT ![r] = "done"]
    /\ resp' = [resp EXCEPT ![r] = [status |-> status, detail |-> detail]]
    /\ quizzes' = quizzes \cup
           (IF "pending" \in DOMAIN local[r]
            THEN PendingRows(local[r].pending, "quizzes") ELSE {})
    /\ questions' = questions \cup
           (IF "pending" \in DOMAIN local[r]
            THEN PendingRows(local[r].pending, "questions") ELSE {})
    /\ submissions' = submissions \cup
           (IF "pending" \in DOMAIN local[r]
            THEN PendingRows(local[r].pending, "quiz_submissions") ELSE {})
    /\ UNCHANGED <<documents, local, written, now>>

\* The handler raises: the response is the error, the session is closed without
\* a commit and what it held is rolled back.
Raise(r, status, detail) ==
    /\ pc' = [pc EXCEPT ![r] = "done"]
    /\ resp' = [resp EXCEPT ![r] = [status |-> status, detail |-> detail]]
    /\ UNCHANGED <<documents, quizzes, questions, submissions, local, written,
                   now>>

----------------------------------------------------------------------------
(* create_quiz: POST /api/quiz/create *)

\* select(Document).where(Document.file_id.in_(payload.file_ids))
DocumentsIn(file_ids) ==
    {i \in 1..Len(documents) :
        \E k \in 1..Len(file_ids) : documents[i].file_id = file_ids[k]}

\* not (not documents or len(documents) != len(payload.file_ids))
FileIdsValid(file_ids) ==
    /\ DocumentsIn(file_ids) # {}
    /\ Cardinality(DocumentsIn(file_ids)) = Len(file_ids)

\* The request arrives; await db.execute(select(Document)...) and the check of
\* the file ids.
CreateQuizBegin(r, payloads, cap) ==
    /\ pc[r] = "idle"
    /\ Cardinality(quizzes) < cap
    /\ \E payload \in payloads :
         /\ local' = [local EXCEPT ![r] = [h |-> "create", payload |-> payload]]
         /\ IF FileIdsValid(payload.file_ids)
            THEN /\ pc' = [pc EXCEPT ![r] = "cq_generate"]
                 /\ resp' = resp
            ELSE /\ pc' = [pc EXCEPT ![r] = "done"]
                 /\ resp' = [resp EXCEPT ![r] =
                               [status |-> 400,
                                detail |-> "One or more file IDs are invalid."]]
    /\ UNCHANGED <<documents, quizzes, questions, submissions, written, now>>

\* client.chat.completions.create(...) and eval(response_content): the call or
\* the eval raises, or eval returns a Python value.
CreateQuizGenerate(r, results) ==
    /\ pc[r] = "cq_generate"
    /\ \/ Raise(r, 500, "OpenAI error")
       \/ \E g \in results :
            /\ pc' = [pc EXCEPT ![r] = "cq_validate"]
            /\ local' = [local EXCEPT ![r] =
                           [h |-> "create", payload |-> local[r].payload,
                            generated_questions |-> g]]
            /\ UNCHANGED <<documents, quizzes, questions, submissions, resp, written,
                           now>>

\* Mutant: only a result that is too short is refused.
ResponseValidTooShortOnly(g, n) == g.is_list /\ Len(g.items) >= n

\* not (not isinstance(generated_questions, list)
\*      or len(generated_questions) != payload.number_of_questions)
ResponseValid(g, n) == g.is_list /\ Len(g.items) = n

NewQuiz(quiz_id, payload) ==
    [quiz_id |-> quiz_id,
     number_of_questions |-> payload.number_of_questions,
     question_type |-> payload.question_type]

\* The validation of the response; then quiz_id = str(uuid.uuid4()) and
\* db.add(new_quiz).
CreateQuizValidate(r) ==
    /\ pc[r] = "cq_validate"
    /\ IF ~ResponseValid(local[r].generated_questions,
                         local[r].payload.number_of_questions)
       THEN Raise(r, 500, "Invalid response from OpenAI.")
       ELSE /\ pc' = [pc EXCEPT ![r] = "cq_loop"]
            /\ local' = [local EXCEPT ![r] =
                  [h |-> "create", payload |-> local[r].payload,
                   generated_questions |-> local[r].generated_questions,
                   quiz_id |-> Uuid4, uuids |-> {Uuid4}, index |-> 1,
                   pending |-> <<[table |-> "quizzes",
                                  row |-> NewQuiz(Uuid4, local[r].payload)]>>]]
            /\ UNCHANGED <<documents, quizzes, questions, submissions, resp, written,
                           now>>

\* question["question"], question["options"], question["correct_answer"]
RequiredKeys == {"question", "options", "correct_answer"}

\* f"{quiz_id}_q{index}"
UniqueQuestionId(quiz_id, index) == <<quiz_id, index>>

NewQuestion(quiz_id, index, question) ==
    [question_id |-> UniqueQuestionId(quiz_id, index),
     quiz_id |-> quiz_id,
     question |-> question.question,
     options |-> JsonDumps(question.options),
     correct_answer |-> question.correct_answer]

\* One turn of `for index, question in enumerate(generated_questions, start=1)`,
\* or the end of the loop.
CreateQuizAddQuestion(r) ==
    /\ pc[r] = "cq_loop"
    /\ LET l == local[r]
           items == l.generated_questions.items
       IN IF l.index > Len(items)
          THEN /\ pc' = [pc EXCEPT ![r] = "cq_commit"]
               /\ UNCHANGED <<documents, quizzes, questions, submissions, local,
                              resp, written, now>>
          ELSE IF ~(RequiredKeys \subseteq DOMAIN items[l.index])
          THEN Raise(r, 500, "KeyError")
          ELSE /\ local' = [local EXCEPT ![r] =
                     [l EXCEPT !.index = @ + 1,
                               !.pending = Append(@,
                                   [table |-> "questions",
                                    row |-> NewQuestion(l.quiz_id, l.index,
                                                        items[l.index])])]]
               /\ UNCHANGED <<documents, quizzes, questions, submissions, pc,
                              resp, written, now>>

\* await db.commit(): the transaction is applied as a whole, or the database
\* refuses it and nothing is applied.
CreateQuizCommit(r) ==
    /\ pc[r] = "cq_commit"
    /\ \/ Raise(r, 500, "commit failed")
       \/ /\ quizzes' = quizzes \cup PendingRows(local[r].pending, "quizzes")
          /\ questions' = questions \cup PendingRows(local[r].pending, "questions")
          /\ written' = [written EXCEPT ![r] = @ + Len(local[r].pending)]
          /\ pc' = [pc EXCEPT ![r] = "done"]
          /\ resp' = [resp EXCEPT ![r] = [status |-> 200,
                                          quiz_id |-> local[r].quiz_id]]
          /\ UNCHANGED <<documents, submissions, local, now>>

----------------------------------------------------------------------------
(* submit_quiz: POST /api/quiz/{quiz_id}/submit *)

\* select(Quiz).where(Quiz.quiz_id == quiz_id) ... .first()
QuizExists(quiz_id) == \E q \in quizzes : q.quiz_id = quiz_id

\* The request arrives; await db.execute(select(Quiz)...) and the 404.
SubmitBegin(r, quiz_ids, answer_lists, cap) ==
    /\ pc[r] = "idle"
    /\ \E quiz_id \in quiz_ids, answers \in answer_lists :
         /\ Cardinality(submissions) + Len(answers) <= cap
         /\ local' = [local EXCEPT ![r] =
                        [h |-> "submit", quiz_id |-> quiz_id, answers |-> answers]]
         /\ IF QuizExists(quiz_id)
            THEN /\ pc' = [pc EXCEPT ![r] = "sb_questions"]
                 /\ resp' = resp
            ELSE /\ pc' = [pc EXCEPT ![r] = "done"]
                 /\ resp' = [resp EXCEPT ![r] = [status |-> 404,
                                                 detail |-> "Quiz not found"]]
    /\ UNCHANGED <<documents, quizzes, questions, submissions, written, now>>

\* Mutant: the questions are not filtered by the quiz.
QuestionsIn(quiz_id, answers) ==
    {x \in questions :
        \E i \in 1..Len(answers) : answers[i].question_id = x.question_id}

\* select(Question).where(Question.quiz_id == quiz_id,
\*                        Question.question_id.in_(question_ids))
QuestionsOfQuizIn(quiz_id, answers) ==
    {x \in questions :
        /\ x.quiz_id = quiz_id
        /\ \E i \in 1..Len(answers) : answers[i].question_id = x.question_id}

\* next(q for q in questions if q.question_id == answer["question_id"])
QuestionOf(found, answer) ==
    CHOOSE x \in found : x.question_id = answer.question_id

\* str.lower() on the answer strings of the model
Lower(a) == CASE a = "A" -> "a" [] a = "B" -> "b" [] OTHER -> a

\* Mutant: the comparison ignores case.
IsCorrectIgnoringCase(question, answer) ==
    Lower(question.correct_answer) = Lower(answer.selected_answer)

\* question.correct_answer == answer["selected_answer"]
IsCorrect(question, answer) == question.correct_answer = answer.selected_answer

\* k uuid4 values, none in `used`, all different
RECURSIVE FreshUuids(_, _)
FreshUuids(used, k) ==
    IF k = 0 THEN <<>>
    ELSE <<FreshFrom(used, 1)>> \o FreshUuids(used \cup {FreshFrom(used, 1)}, k - 1)

\* The Submission objects of the loop over payload.answers
NewSubmissions(quiz_id, user_id, answers, found, ids) ==
    [i \in 1..Len(answers) |->
        [table |-> "quiz_submissions",
         row |-> [submission_id |-> ids[i],
                  quiz_id |-> quiz_id,
                  user_id |-> user_id,
                  question_id |-> answers[i].question_id,
                  selected_answer |-> answers[i].selected_answer,
                  is_correct |-> IsCorrect(QuestionOf(found, answers[i]), answers[i])]]]

\* score: one more for every answer that is correct
Score(answers, found) ==
    Cardinality({i \in 1..Len(answers) : IsCorrect(QuestionOf(found, answers[i]), answers[i])})

\* not (len(questions) != len(payload.answers))
AnswersResolved(quiz_id, answers) ==
    Cardinality(QuestionsOfQuizIn(quiz_id, answers)) = Len(answers)

\* await db.execute(select(Question)...), the 400, then the loop over the
\* answers and db.add_all(submissions).
SubmitSelectQuestions(r) ==
    /\ pc[r] = "sb_questions"
    /\ LET l == local[r]
           found == QuestionsOfQuizIn(l.quiz_id, l.answers)
           used == UsedUuids
           user_id == FreshFrom(used, 1)
           ids == FreshUuids(used \cup {user_id}, Len(l.answers))
       IN IF ~AnswersResolved(l.quiz_id, l.answers)
          THEN Raise(r, 400, "Some questions do not belong to this quiz")
          ELSE /\ pc' = [pc EXCEPT ![r] = "sb_commit"]
               /\ local' = [local EXCEPT ![r] =
                     [h |-> "submit", quiz_id |-> l.quiz_id, answers |-> l.answers,
                      user_id |-> user_id,
                      uuids |-> {user_id} \cup {ids[i] : i \in 1..Len(ids)},
                      score |-> Score(l.answers, found),
                      total_questions |-> Len(l.answers),
                      pending |-> NewSubmissions(l.quiz_id, user_id, l.answers,
                                                 found, ids)]]
               /\ UNCHANGED <<documents, quizzes, questions, submissions, resp,
                              written, now>>

\* The rows as the INSERT stores them: created_at has the default func.now().
Inserted(rows) ==
    {[submission_id |-> s.submission_id,
      quiz_id |-> s.quiz_id,
      user_id |-> s.user_id,
      question_id |-> s.question_id,
      selected_answer |-> s.selected_answer,
      is_correct |-> s.is_correct,
      created_at |-> now] : s \in rows}

\* Mutant: the rows of an earlier submission of the same quiz and question are
\* replaced by the new ones.
CommittedSubmissionsReplacing(rows) ==
    {s \in submissions :
        ~\E n \in rows : n.quiz_id = s.quiz_id /\ n.question_id = s.question_id}
        \cup Inserted(rows)

\* The table after the INSERT of the rows of the session.
CommittedSubmissions(rows) == submissions \cup Inserted(rows)

\* await db.commit(): all the rows of the call, or the database refuses the
\* transaction and none of them.
SubmitCommit(r) ==
    /\ pc[r] = "sb_commit"
    /\ \/ Raise(r, 500, "commit failed")
       \/ /\ submissions' =
                 CommittedSubmissions(PendingRows(local[r].pending, "quiz_submissions"))
          /\ written' = [written EXCEPT ![r] = @ + Len(local[r].pending)]
          /\ pc' = [pc EXCEPT ![r] = "sb_respond"]
          /\ UNCHANGED <<documents, quizzes, questions, local, resp, now>>

\* round((score / total_questions) * 100, 2), in hundredths; exact below 32
\* questions, where no quotient falls halfway between two hundredths.
Percentage(score, total) == (2 * 10000 * score + total) \div (2 * total)

\* The response: score / total_questions raises ZeroDivisionError when the
\* request held no answer.
SubmitRespond(r) ==
    /\ pc[r] = "sb_respond"
    /\ IF local[r].total_questions = 0
       THEN /\ pc' = [pc EXCEPT ![r] = "done"]
            /\ resp' = [resp EXCEPT ![r] = [status |-> 500,
                                            detail |-> "ZeroDivisionError"]]
       ELSE /\ pc' = [pc EXCEPT ![r] = "done"]
            /\ resp' = [resp EXCEPT ![r] =
                  [status |-> 200, quiz_id |-> local[r].quiz_id,
                   score |-> local[r].score,
                   total_questions |-> local[r].total_questions,
                   percentage |-> Percentage(local[r].score,
                                             local[r].total_questions)]]
    /\ UNCHANGED <<documents, quizzes, questions, submissions, local, written,
                   now>>

----------------------------------------------------------------------------
(* search_files: GET /api/files/search *)

\* The query text q is the sequence of its blank-separated words (it holds no
\* tsquery operator); `type` is the sequence of its comma-separated pieces,
\* <<>> when the parameter is absent.

mime_map ==
    [t \in {"txt", "pdf", "docx"} |->
        CASE t = "txt" -> "text/plain"
          [] t = "pdf" -> "application/pdf"
          [] t = "docx" ->
               "application/vnd.openxmlformats-officedocument.wordprocessingml.document"]

\* to_tsquery(:query) has a syntax error when two words follow each other
\* without an operator.
TsquerySyntaxError(q) == Len(q) > 1

\* to_tsquery(:query) of a single word
ToTsquery(q) == Lexeme(q[1])

\* search_vector @@ to_tsquery(:query) AND file_type = ANY(:file_types),
\* the second condition only when file_types is not empty: the positions in
\* docs of the rows that match.
Matching(docs, q, file_types) ==
    {i \in 1..Len(docs) :
        /\ ToTsquery(q) \in DOMAIN docs[i].search_vector
        /\ file_types = <<>> \/
             \E j \in 1..Len(file_types) : docs[i].file_type = file_types[j]}

\* ts_rank(search_vector, to_tsquery(:query)): grows with the number of
\* positions of the lexeme.
TsRank(doc, q) == doc.search_vector[ToTsquery(q)]

\* The collation order of the names that occur.
NamesInOrder == <<"a.txt", "b.txt", "c.txt">>

NamePosition(name) == CHOOSE i \in 1..Len(NamesInOrder) : NamesInOrder[i] = name

\* ORDER BY relevance DESC, or ORDER BY name ASC: may row d1 precede row d2
OrderedBy(sort, q, d1, d2) ==
    IF sort = "relevance" THEN TsRank(d1, q) >= TsRank(d2, q)
    ELSE NamePosition(d1.name) <= NamePosition(d2.name)

\* The orders in which the query may deliver the matching rows: rows with
\* equal sort keys come in any order.
Orderings(docs, q, file_types, sort) ==
    LET M == Matching(docs, q, file_types)
        n == Cardinality(M)
    IN {o \in [1..n -> M] :
          /\ \A i, j \in 1..n : i # j => o[i] # o[j]
          /\ \A i, j \in 1..n : i < j => OrderedBy(sort, q, docs[o[i]], docs[o[j]])}

\* LIMIT :limit OFFSET :offset, for limit >= 0 and offset >= 0
LimitOffset(o, limit, offset) ==
    IF offset >= Len(o) \/ limit = 0 THEN <<>>
    ELSE SubSeq(o, offset + 1,
                IF offset + limit < Len(o) THEN offset + limit ELSE Len(o))

ResultRow(doc, q) == [file_id |-> doc.file_id, name |-> doc.name,
                      file_type |-> doc.file_type, relevance |-> TsRank(doc, q)]

\* The rows that the first query may return.
SearchRows(docs, q, file_types, sort, limit, offset) ==
    {[i \in 1..Len(LimitOffset(o, limit, offset)) |->
         ResultRow(docs[LimitOffset(o, limit, offset)[i]], q)] :
     o \in Orderings(docs, q, file_types, sort)}

\* Mutant: the number of full pages only.
TotalPagesFullOnly(total_results, limit) == total_results \div limit

\* (total_results // limit) + (1 if total_results % limit > 0 else 0)
TotalPages(total_results, limit) ==
    (total_results \div limit) + (IF total_results % limit > 0 THEN 1 ELSE 0)

SearchFail(r, loc, status, detail) ==
    /\ pc' = [pc EXCEPT ![r] = "done"]
    /\ local' = [local EXCEPT ![r] = loc]
    /\ resp' = [resp EXCEPT ![r] = [status |-> status, detail |-> detail]]

\* The request arrives; sort is validated, offset and file_types are computed,
\* and the first query is executed: await db.execute(text(query_str), params).
SearchBegin(r, queries, pages, limits, sorts, types) ==
    /\ pc[r] = "idle"
    /\ \E q \in queries, page \in pages, limit \in limits, sort \in sorts,
          type \in types :
         LET loc == [h |-> "search", q |-> q, page |-> page, limit |-> limit,
                     sort |-> sort, type |-> type]
             offset == (page - 1) * limit
             file_types == [i \in 1..Len(type) |-> mime_map[type[i]]]
         IN IF sort \notin {"relevance", "name"}
            THEN SearchFail(r, loc, 400, "Invalid sort parameter")
            ELSE IF \E i \in 1..Len(type) : type[i] \notin DOMAIN mime_map
            THEN SearchFail(r, loc, 500, "KeyError")
            ELSE IF TsquerySyntaxError(q)
            THEN SearchFail(r, loc, 500, "syntax error in tsquery")
            ELSE IF limit < 0
            THEN SearchFail(r, loc, 500, "LIMIT must not be negative")
            ELSE IF offset < 0
            THEN SearchFail(r, loc, 500, "OFFSET must not be negative")
            ELSE /\ pc' = [pc EXCEPT ![r] = "se_count"]
                 /\ \E rows \in SearchRows(documents, q, file_types, sort,
                                            limit, offset) :
                      local' = [local EXCEPT ![r] =
                                  [h |-> "search", q |-> q, page |-> page,
                                   limit |-> limit, sort |-> sort, type |-> type,
                                   file_types |-> file_types, rows |-> rows]]
                 /\ resp' = resp
    /\ UNCHANGED <<documents, quizzes, questions, submissions, written, now>>

\* await db.execute(text(count_query_str), ...), total_pages and the response
SearchCount(r) ==
    /\ pc[r] = "se_count"
    /\ pc' = [pc EXCEPT ![r] = "done"]
    /\ LET total_results == Cardinality(Matching(documents, local[r].q,
                                                 local[r].file_types))
       IN IF local[r].limit = 0
          THEN resp' = [resp EXCEPT ![r] = [status |-> 500,
                                            detail |-> "ZeroDivisionError"]]
          ELSE resp' = [resp EXCEPT ![r] =
                          [status |-> 200,
                           pagination |->
                             [current_page |-> local[r].page,
                              total_results |-> total_results,
                              total_pages |-> TotalPages(total_results,
                                                         local[r].limit),
                              limit |-> local[r].limit],
                           results |-> local[r].rows]]
    /\ UNCHANGED <<documents, quizzes, questions, submissions, local, written,
                   now>>

----------------------------------------------------------------------------
(* get_quiz: GET /api/quiz/get/{quiz_id} *)

\* Mutant: the entry of a question with its correct answer.
QuestionEntryWithAnswer(question) ==
    [question_id |-> question.question_id,
     question |-> question.question,
     options |-> question.options,
     correct_answer |-> question.correct_answer]

\* One entry of the list "questions" of the response.
QuestionEntry(question) ==
    [question_id |-> question.question_id,
     question |-> question.question,
     options |-> question.options]

\* The orders in which a query without ORDER BY may deliver the rows S.
AnyOrder(S) ==
    {o \in [1..Cardinality(S) -> S] :
        \A i, j \in 1..Cardinality(S) : i # j => o[i] # o[j]}

\* select(Question).where(Question.quiz_id == quiz_id), on a questions table
QuestionsWhereQuiz(table, quiz_id) == {x \in table : x.quiz_id = quiz_id}

\* The values that `response` may take for the quiz row and a questions table.
GetQuizResponses(quiz, table) ==
    {[quiz_id |-> quiz.quiz_id,
      number_of_questions |-> quiz.number_of_questions,
      question_type |-> quiz.question_type,
      questions |-> [i \in 1..Len(o) |-> QuestionEntry(o[i])]] :
     o \in AnyOrder(QuestionsWhereQuiz(table, quiz.quiz_id))}

\* The request arrives: await db.execute(select(Quiz).where(...)), and 404
\* when there is no such quiz.
GetQuizBegin(r, quiz_ids) ==
    /\ pc[r] = "idle"
    /\ \E quiz_id \in quiz_ids :
         IF \E q \in quizzes : q.quiz_id = quiz_id
         THEN /\ pc' = [pc EXCEPT ![r] = "gq_questions"]
              /\ local' = [local EXCEPT ![r] =
                    [h |-> "get", quiz_id |-> quiz_id,
                     quiz |-> CHOOSE q \in quizzes : q.quiz_id = quiz_id]]
              /\ resp' = resp
         ELSE /\ pc' = [pc EXCEPT ![r] = "done"]
              /\ local' = [local EXCEPT ![r] = [h |-> "get", quiz_id |-> quiz_id]]
              /\ resp' = [resp EXCEPT ![r] = [status |-> 404,
                                              detail |-> "Quiz not found"]]
    /\ UNCHANGED <<documents, quizzes, questions, submissions, written, now>>

\* await db.execute(select(Question).where(...)), and the response
GetQuizQuestions(r) ==
    /\ pc[r] = "gq_questions"
    /\ pc' = [pc EXCEPT ![r] = "done"]
    /\ \E response \in GetQuizResponses(local[r].quiz, questions) :
         resp' = [resp EXCEPT ![r] = [status |-> 200, data |-> response]]
    /\ UNCHANGED <<documents, quizzes, questions, submissions, local, written,
                   now>>

----------------------------------------------------------------------------
(* get_all_quizzes: GET /api/quiz/get-all *)

\* ORDER BY quiz_id DESC
RECURSIVE OrderByQuizIdDesc(_)
OrderByQuizIdDesc(S) ==
    IF S = {} THEN <<>>
    ELSE LET top == CHOOSE q \in S : \A o \in S : o.quiz_id <= q.quiz_id
         IN <<top>> \o OrderByQuizIdDesc(S \ {top})

\* The request arrives; page and limit are validated and the first query is
\* executed: select(Quiz).order_by(...).offset(offset).limit(limit).
GetAllBegin(r, pages, limits) ==
    /\ pc[r] = "idle"
    /\ \E page \in pages, limit \in limits :
         IF page < 1 \/ limit < 1
         THEN /\ pc' = [pc EXCEPT ![r] = "done"]
              /\ local' = [local EXCEPT ![r] = [h |-> "get_all", page |-> page,
                                                limit |-> limit]]
              /\ resp' = [resp EXCEPT ![r] =
                    [status |-> 400,
                     detail |-> "Page and limit must be positive integers."]]
         ELSE /\ pc' = [pc EXCEPT ![r] = "ga_count"]
              /\ local' = [local EXCEPT ![r] =
                    [h |-> "get_all", page |-> page, limit |-> limit,
                     quizzes |-> LimitOffset(OrderByQuizIdDesc(quizzes), limit,
                                             (page - 1) * limit)]]
              /\ resp' = resp
    /\ UNCHANGED <<documents, quizzes, questions, submissions, written, now>>

\* await db.execute(select(func.count()).select_from(Quiz)), and the response
GetAllCount(r) ==
    /\ pc[r] = "ga_count"
    /\ pc' = [pc EXCEPT ![r] = "done"]
    /\ resp' = [resp EXCEPT ![r] =
                  [status |-> 200,
                   data |-> local[r].quizzes,
                   pagination |-> [page |-> local[r].page,
                                   limit |-> local[r].limit,
                                   total_items |-> Cardinality(quizzes)]]]
    /\ UNCHANGED <<documents, quizzes, questions, submissions, local, written,
                   now>>

----------------------------------------------------------------------------
(* get_quiz_analytics: GET /api/analytics/quiz/{quiz_id} *)

\* A date parameter is a text; "" stands for a parameter that is absent (None
\* and "" are both false in `if start_date`).  The texts of the days 1, 2, 3
\* of the clock in the format "%Y-%m-%d":
DateTexts == <<"2024-01-01", "2024-01-02", "2024-01-03">>

\* datetime.strptime(text, "%Y-%m-%d"): the midnight at which the day begins,
\* or ValueError.
Strptime(text) ==
    IF \E d \in 1..Len(DateTexts) : DateTexts[d] = text
    THEN [ok |-> TRUE,
          value |-> [day |-> CHOOSE d \in 1..Len(DateTexts) : DateTexts[d] = text,
                     tod |-> 0]]
    ELSE [ok |-> FALSE]

\* a <= b on timestamps
NotAfter(a, b) == a.day < b.day \/ (a.day = b.day /\ a.tod <= b.tod)

\* select(Submission).where(Submission.quiz_id == quiz_id), with
\* .where(Submission.created_at >= start_datetime) and
\* .where(Submission.created_at <= end_datetime) for the dates that are given
FilteredSubmissions(table, quiz_id, start_date, end_date) ==
    {x \in table :
        /\ x.quiz_id = quiz_id
        /\ start_date # "" => NotAfter(Strptime(start_date).value, x.created_at)
        /\ end_date # "" => NotAfter(x.created_at, Strptime(end_date).value)}

\* Mutant: every submission counts as correct.
TotalCorrectOfAll(subs) == Cardinality(subs)

\* sum(submission.is_correct for submission in submissions)
TotalCorrect(subs) == Cardinality({x \in subs : x.is_correct})

\* question_stats_list, in no particular order: one entry for every
\* question_id that occurs, with its attempts counted.
QuestionStats(subs) ==
    {[question_id |-> q,
      total_attempts |-> Cardinality({x \in subs : x.question_id = q}),
      correct_attempts |->
          Cardinality({x \in subs : x.question_id = q /\ x.is_correct}),
      accuracy_percentage |->
          Percentage(Cardinality({x \in subs : x.question_id = q /\ x.is_correct}),
                     Cardinality({x \in subs : x.question_id = q}))] :
     q \in {x.question_id : x \in subs}}

\* The request arrives: await db.execute(select(Quiz).where(...)), and 404
\* when there is no such quiz.
AnalyticsBegin(r, quiz_ids, dates) ==
    /\ pc[r] = "idle"
    /\ \E quiz_id \in quiz_ids, start_date \in dates, end_date \in dates :
         /\ local' = [local EXCEPT ![r] =
                        [h |-> "analytics", quiz_id |-> quiz_id,
                         start_date |-> start_date, end_date |-> end_date]]
         /\ IF QuizExists(quiz_id)
            THEN /\ pc' = [pc EXCEPT ![r] = "an_submissions"]
                 /\ resp' = resp
            ELSE /\ pc' = [pc EXCEPT ![r] = "done"]
                 /\ resp' = [resp EXCEPT ![r] = [status |-> 404,
                                                 detail |-> "Quiz not found"]]
    /\ UNCHANGED <<documents, quizzes, questions, submissions, written, now>>

\* The dates are parsed, the submissions are selected and counted.
AnalyticsSubmissions(r) ==
    /\ pc[r] = "an_submissions"
    /\ LET l == local[r]
           subs == FilteredSubmissions(submissions, l.quiz_id, l.start_date,
                                       l.end_date)
       IN IF \/ l.start_date # "" /\ ~Strptime(l.start_date).ok
             \/ l.end_date # "" /\ ~Strptime(l.end_date).ok
          THEN Raise(r, 400, "Invalid date format. Use YYYY-MM-DD.")
          ELSE IF subs = {}
          THEN Raise(r, 404, "No submissions found for this quiz in the given date range")
          ELSE /\ pc' = [pc EXCEPT ![r] = "done"]
               /\ resp' = [resp EXCEPT ![r] =
                     [status |-> 200,
                      total_submissions |-> Cardinality(subs),
                      total_correct |-> TotalCorrect(subs),
                      accuracy_percentage |->
                          Percentage(TotalCorrect(subs), Cardinality(subs)),
                      question_stats |-> QuestionStats(subs)]]
               /\ UNCHANGED <<documents, quizzes, questions, submissions, local,
                              written, now>>

\* Time passes between two requests.
Tick ==
    /\ \A r \in Req : pc[r] = "idle"
    /\ IF now.tod < MaxTimeOfDay
       THEN now' = [day |-> now.day, tod |-> now.tod + 1]
       ELSE /\ now.day < MaxDay
            /\ now' = [day |-> now.day + 1, tod |-> 0]
    /\ UNCHANGED <<documents, quizzes, questions, submissions, pc, local, resp,
                   written>>

----------------------------------------------------------------------------
(* Specifications *)

Init ==
    /\ documents = <<>>
    /\ quizzes = {}
    /\ questions = {}
    /\ submissions = {}
    /\ pc = [r \in Req |-> "idle"]
    /\ local = [r \in Req |-> NoLocal]
    /\ resp = [r \in Req |-> NoResp]
    /\ written = [r \in Req |-> 0]
    /\ now = [day |-> 1, tod |-> 0]

UploadNames == {"a.txt", "b.txt"}
UploadTypes == {"text/plain", "application/pdf", "image/png"}
UploadTypesSeq == {"text/plain", "image/png"}

\* No other request is being handled.
Alone(r) == \A o \in Req \ {r} : pc[o] = "idle"

\* No other request is being handled by handler h.
NoOther(r, h) == \A o \in Req \ {r} : local[o].h # h

\* Concurrent ingestion: upload requests interleave at their await points.
NextIngest ==
    \E r \in Req :
        \/ UploadBegin(r, UploadNames, UploadTypes, MaxDocs)
        \/ UploadSelectIds(r)
        \/ UploadVector(r)
        \/ UploadCommit(r)
        \/ Finish(r)

SpecIngest == Init /\ [][NextIngest]_vars

\* Sequential ingestion: a request starts only when no other is in flight.
NextIngestSeq ==
    \E r \in Req :
        \/ (Alone(r) /\ UploadBegin(r, UploadNames, UploadTypesSeq, MaxDocsSeq))
        \/ UploadSelectIds(r)
        \/ UploadVector(r)
        \/ UploadCommit(r)
        \/ Finish(r)

SpecIngestSeq == Init /\ [][NextIngestSeq]_vars

----------------------------------------------------------------------------
(* Quiz creation *)

\* Sequences over S of length 0..n
RECURSIVE SeqsUpTo(_, _)
SeqsUpTo(S, n) ==
    IF n = 0 THEN {<<>>}
    ELSE LET shorter == SeqsUpTo(S, n - 1)
         IN shorter \cup {Append(q, x) : q \in shorter, x \in S}

File001 == CustomFileId(1)
File002 == CustomFileId(2)

\* A well-formed mcq entry.
EntryMcq == [question |-> "Q", options |-> <<"A", "B", "C", "D">>,
             correct_answer |-> "A"]
\* The entry of the prompt's own example: the answer is the label of an option,
\* not the option.
EntryLabel == [question |-> "Q", options |-> <<"A. w", "B. x", "C. y", "D. z">>,
               correct_answer |-> "A"]
\* An entry without the key "correct_answer".
EntryNoAnswer == [question |-> "Q", options |-> <<"A", "B", "C", "D">>]

GenEntries == {EntryMcq, EntryLabel, EntryNoAnswer}

\* What eval(response_content) may return: a value that is no list, or a list.
GenResults ==
    {[is_list |-> FALSE, items |-> <<>>]}
        \cup {[is_list |-> TRUE, items |-> q] : q \in SeqsUpTo(GenEntries, MaxQuestions)}

QuizPayloads ==
    [file_ids : {<<File001>>, <<File002>>},
     number_of_questions : 1..MaxQuestions,
     question_type : {"mcq", "true_false"}]

NextQuiz ==
    \E r \in Req :
        \/ UploadBegin(r, {"a.txt"}, {"text/plain"}, MaxQuizDocs)
        \/ UploadSelectIds(r)
        \/ UploadVector(r)
        \/ UploadCommit(r)
        \/ CreateQuizBegin(r, QuizPayloads, MaxQuizzes)
        \/ CreateQuizGenerate(r, GenResults)
        \/ CreateQuizValidate(r)
        \/ CreateQuizAddQuestion(r)
        \/ CreateQuizCommit(r)
        \/ Finish(r)

SpecQuiz == Init /\ [][NextQuiz]_vars

----------------------------------------------------------------------------
(* Grading *)

GradePayloads ==
    [file_ids : {<<File001>>},
     number_of_questions : 1..MaxQuestions,
     question_type : {"mcq"}]

\* Well-formed generation results only.
GradeResults ==
    {[is_list |-> TRUE, items |-> [i \in 1..n |-> EntryMcq]] : n \in 1..MaxQuestions}

\* The quiz ids a client may send: those of the stored quizzes, and one of no quiz.
SubmitQuizIds == {q.quiz_id : q \in quizzes} \cup {0}

\* The answers a client may send: about any stored question or about a question
\* id of no question, with the right answer, its lower case or another option.
SubmitAnswers ==
    [question_id : {x.question_id : x \in questions} \cup {UniqueQuestionId(0, 1)},
     selected_answer : {"A", "a"}]

SubmitAnswerLists == SeqsUpTo(SubmitAnswers, MaxAnswers)

\* Grading: a submission, a quiz creation and their steps interleave; two
\* requests to the same handler do not overlap, and an upload runs alone.
NextGrade ==
    \E r \in Req :
        \/ (Alone(r) /\ UploadBegin(r, {"a.txt"}, {"text/plain"}, MaxQuizDocs))
        \/ UploadSelectIds(r)
        \/ UploadVector(r)
        \/ UploadCommit(r)
        \/ (NoOther(r, "create") /\ CreateQuizBegin(r, GradePayloads, MaxGradedQuizzes))
        \/ CreateQuizGenerate(r, GradeResults)
        \/ CreateQuizValidate(r)
        \/ CreateQuizAddQuestion(r)
        \/ CreateQuizCommit(r)
        \/ (NoOther(r, "submit") /\ SubmitBegin(r, SubmitQuizIds, SubmitAnswerLists, MaxSubmissions))
        \/ SubmitSelectQuestions(r)
        \/ SubmitCommit(r)
        \/ SubmitRespond(r)
        \/ Finish(r)

SpecGrade == Init /\ [][NextGrade]_vars

----------------------------------------------------------------------------
(* Search *)

SearchNames == {"a.txt", "b.txt"}

SearchQueries == {<<"SEO">>, <<"quiz">>, <<"zzz">>, <<"seo", "quiz">>}

SearchPages == 0..MaxPage

SearchLimits == -1..MaxLimit

SearchSorts == {"relevance", "name", "date"}

SearchTypes == {<<>>, <<"pdf">>, <<"txt", "pdf">>, <<"exe">>}

\* Uploads, one at a time, and searches, one at a time; an upload and a
\* search interleave.
NextSearch ==
    \E r \in Req :
        \/ (NoOther(r, "upload") /\ UploadBegin(r, SearchNames, UploadTypesSeq,
                                                 MaxSearchDocs))
        \/ UploadSelectIds(r)
        \/ UploadVector(r)
        \/ UploadCommit(r)
        \/ (NoOther(r, "search") /\ SearchBegin(r, SearchQueries, SearchPages,
                                                 SearchLimits, SearchSorts,
                                                 SearchTypes))
        \/ SearchCount(r)
        \/ Finish(r)

SpecSearch == Init /\ [][NextSearch]_vars

----------------------------------------------------------------------------
(* Reading quizzes *)

\* A well-formed mcq entry whose answer is the second option.
EntryMcqB == [question |-> "Q", options |-> <<"A", "B", "C", "D">>,
              correct_answer |-> "B"]

\* Well-formed generation results, with either answer for every question.
ReadResults ==
    {[is_list |-> TRUE, items |-> q] :
     q \in SeqsUpTo({EntryMcq, EntryMcqB}, MaxQuestions) \ {<<>>}}

\* Reading: an upload runs alone, and so does a listing; a quiz creation and
\* a get_quiz interleave.
NextRead ==
    \E r \in Req :
        \/ (Alone(r) /\ UploadBegin(r, {"a.txt"}, {"text/plain"}, MaxQuizDocs))
        \/ UploadSelectIds(r)
        \/ UploadVector(r)
        \/ UploadCommit(r)
        \/ (NoOther(r, "create") /\ CreateQuizBegin(r, GradePayloads, MaxReadQuizzes))
        \/ CreateQuizGenerate(r, ReadResults)
        \/ CreateQuizValidate(r)
        \/ CreateQuizAddQuestion(r)
        \/ CreateQuizCommit(r)
        \/ (NoOther(r, "get") /\ GetQuizBegin(r, SubmitQuizIds))
        \/ GetQuizQuestions(r)
        \/ (Alone(r) /\ GetAllBegin(r, SearchPages, SearchLimits))
        \/ GetAllCount(r)
        \/ Finish(r)

SpecRead == Init /\ [][NextRead]_vars

----------------------------------------------------------------------------
(* Analytics *)

\* The answer sheets a client may send: one answer to every question of a
\* stored quiz, in the order of the questions.
AnswerSheets ==
    UNION {{a \in [1..Cardinality(QuestionsWhereQuiz(questions, q.quiz_id)) ->
                     SubmitAnswers] :
              \A i \in DOMAIN a : a[i].question_id = UniqueQuestionId(q.quiz_id, i)} :
           q \in quizzes}

\* The date parameters a client may send: none, a day, or a text in another
\* format.
AnalyticsDates == {"", DateTexts[1], DateTexts[2], "01/02/2024"}

\* Requests, one at a time, with the clock standing still.
NextAnalytics ==
    \E r \in Req :
        \/ (Alone(r) /\ UploadBegin(r, {"a.txt"}, {"text/plain"}, MaxQuizDocs))
        \/ UploadSelectIds(r)
        \/ UploadVector(r)
        \/ UploadCommit(r)
        \/ (Alone(r) /\ CreateQuizBegin(r, GradePayloads, MaxQuizzes))
        \/ CreateQuizGenerate(r, GradeResults)
        \/ CreateQuizValidate(r)
        \/ CreateQuizAddQuestion(r)
        \/ CreateQuizCommit(r)
        \/ (Alone(r) /\ SubmitBegin(r, SubmitQuizIds, AnswerSheets,
                                    MaxAnalysedSubmissions))
        \/ SubmitSelectQuestions(r)
        \/ SubmitCommit(r)
        \/ SubmitRespond(r)
        \/ (Alone(r) /\ AnalyticsBegin(r, SubmitQuizIds, AnalyticsDates))
        \/ AnalyticsSubmissions(r)
        \/ Finish(r)

SpecAnalytics == Init /\ [][NextAnalytics]_vars

\* Requests, one at a time, and the clock ticking between them.
NextAnalyticsDates ==
    \/ \E r \in Req :
        \/ (Alone(r) /\ UploadBegin(r, {"a.txt"}, {"text/plain"}, MaxQuizDocs))
        \/ UploadSelectIds(r)
        \/ UploadVector(r)
        \/ UploadCommit(r)
        \/ (Alone(r) /\ CreateQuizBegin(r, GradePayloads, MaxQuizzes))
        \/ CreateQuizGenerate(r, GradeResults)
        \/ CreateQuizValidate(r)
        \/ CreateQuizAddQuestion(r)
        \/ CreateQuizCommit(r)
        \/ (Alone(r) /\ SubmitBegin(r, SubmitQuizIds, AnswerSheets, MaxSubmissions))
        \/ SubmitSelectQuestions(r)
        \/ SubmitCommit(r)
        \/ SubmitRespond(r)
        \/ (Alone(r) /\ AnalyticsBegin(r, SubmitQuizIds, AnalyticsDates))
        \/ AnalyticsSubmissions(r)
        \/ Finish(r)
    \/ Tick

SpecAnalyticsDates == Init /\ [][NextAnalyticsDates]_vars

----------------------------------------------------------------------------
(* Claims about ingestion *)

\* The request in slot r has computed its custom_file_id.
HasAllocated(r) == local[r].h = "upload" /\ pc[r] \in {"up_vector", "up_commit"}

\* C1: two concurrent ingestions never allocate the same document identifier:
\* no two upload_file calls in flight hold the same fileNNN value.
C1_NoDuplicateAllocation ==
    \A r1, r2 \in Req :
        (r1 # r2 /\ HasAllocated(r1) /\ HasAllocated(r2))
            => local[r1].custom_file_id # local[r2].custom_file_id

\* The number written after the four characters "file".
NumericSuffix(fid) == PyInt(SubSeq(fid, 5, Len(fid)))

\* The largest numeric suffix among the first k stored documents (0 if none).
MaxSuffixBefore(k) == MaxDefault0({NumericSuffix(documents[i].file_id) : i \in 1..k})

\* C8: under sequential ingestion every stored identifier is "file" followed by
\* the zero-padded (to 3 digits) successor of the largest suffix allocated before
\* it (file001 for the first document), so the identifiers are pairwise distinct
\* and their suffixes strictly increase in allocation order.
C8_SequentialIdentifiers ==
    \A j \in 1..Len(documents) :
        /\ documents[j].file_id =
               FilePrefix \o Zfill(PyStr(MaxSuffixBefore(j - 1) + 1), 3)
        /\ j = 1 => documents[j].file_id = <<"f", "i", "l", "e", "0", "0", "1">>
        /\ \A i \in 1..(j - 1) :
               /\ documents[i].file_id # documents[j].file_id
               /\ NumericSuffix(documents[i].file_id) < NumericSuffix(documents[j].file_id)

\* Ten documents were ingested one after the other; the tenth is file010.
C8_Witness ==
    /\ Len(documents) >= 10
    /\ documents[10].file_id = <<"f", "i", "l", "e", "0", "1", "0">>
    /\ documents[9].file_id = <<"f", "i", "l", "e", "0", "0", "9">>

----------------------------------------------------------------------------
(* Claims about quiz creation *)

QuestionsOf(quiz_id) == {x \in questions : x.quiz_id = quiz_id}

CreateFailed(r) == local[r].h = "create" /\ pc[r] = "done" /\ resp[r].status # 200

\* C2: quiz creation is all-or-nothing: in every state each visible quiz has
\* exactly number_of_questions visible questions and each visible question
\* belongs to a visible quiz; a create_quiz call that failed, at whatever step,
\* has committed no row, and no row carries the quiz id it had allocated.
C2_CreateAllOrNothing ==
    /\ \A q \in quizzes :
           Cardinality(QuestionsOf(q.quiz_id)) = q.number_of_questions
    /\ \A x \in questions : \E q \in quizzes : q.quiz_id = x.quiz_id
    /\ \A r \in Req :
           CreateFailed(r) =>
               /\ written[r] = 0
               /\ "quiz_id" \in DOMAIN local[r] =>
                      /\ ~\E q \in quizzes : q.quiz_id = local[r].quiz_id
                      /\ QuestionsOf(local[r].quiz_id) = {}

\* A create_quiz call for two questions failed on its second entry, which lacks
\* a required field, with the Quiz and the first Question in its session.
C2_Witness ==
    \E r \in Req :
        /\ CreateFailed(r)
        /\ resp[r].detail = "KeyError"
        /\ local[r].index = 2
        /\ Len(local[r].pending) = 2
        /\ written[r] = 0

\* C3: every persisted Question has correct_answer equal to one of its stored
\* options (create_quiz rejects a generation result that has an entry whose
\* correct_answer is not verbatim one of its options).
C3_CorrectAnswerIsAnOption ==
    \A x \in questions :
        \E i \in 1..Len(x.options.json) : x.options.json[i] = x.correct_answer

HasGenerated(r) ==
    local[r].h = "create" /\ "generated_questions" \in DOMAIN local[r]

\* The generation result is no list or has not the requested length.
WrongShape(r) ==
    \/ ~local[r].generated_questions.is_list
    \/ Len(local[r].generated_questions.items)
           # local[r].payload.number_of_questions

\* C4: a create_quiz call whose generation result is not a list, or has a
\* length other than the requested question count, goes no further than the
\* validation: it fails (status 500, "Invalid response from OpenAI."), adds
\* nothing to its session and commits no Quiz or Question row.
C4_WrongShapeRejected ==
    \A r \in Req :
        (HasGenerated(r) /\ WrongShape(r)) =>
            /\ pc[r] \in {"cq_validate", "done"}
            /\ "pending" \notin DOMAIN local[r]
            /\ written[r] = 0
            /\ pc[r] = "done" =>
                   /\ resp[r].status = 500
                   /\ resp[r].detail = "Invalid response from OpenAI."

\* Two questions were requested, generation returned one, and the call failed.
C4_Witness ==
    \E r \in Req :
        /\ HasGenerated(r)
        /\ pc[r] = "done"
        /\ local[r].payload.number_of_questions = 2
        /\ local[r].generated_questions.is_list
        /\ Len(local[r].generated_questions.items) = 1
        /\ resp[r].status = 500
        /\ written[r] = 0

\* C9: every persisted Question has exactly 4 options when its quiz is of type
\* mcq and exactly the options ["True", "False"] when it is of type true_false.
C9_OptionCardinality ==
    \A x \in questions :
        \A q \in quizzes :
            q.quiz_id = x.quiz_id =>
                /\ q.question_type = "mcq" => Len(x.options.json) = 4
                /\ q.question_type = "true_false" =>
                       x.options.json = <<"True", "False">>

----------------------------------------------------------------------------
(* Claims about grading *)

IsSubmit(r) == local[r].h = "submit"

\* The quiz of the call existed when the call looked for it.
QuizWasFound(r) == IsSubmit(r) /\ ~(pc[r] = "done" /\ resp[r].status = 404)

BelongsTo(question_id, quiz_id) ==
    \E x \in questions : x.question_id = question_id /\ x.quiz_id = quiz_id

\* An answer is about a question that is not of the quiz, or two answers are
\* about the same question.
BadReferences(quiz_id, answers) ==
    \/ \E i \in 1..Len(answers) : ~BelongsTo(answers[i].question_id, quiz_id)
    \/ \E i, j \in 1..Len(answers) :
           i # j /\ answers[i].question_id = answers[j].question_id

\* C5: a submit call with an answer about a question that does not belong to
\* the quiz (a question of another quiz, an unknown id), or with two answers
\* about the same question, goes no further than the validation: it fails with
\* status 400 and commits no Submission row.
C5_BadReferencesRejected ==
    \A r \in Req :
        (QuizWasFound(r) /\ BadReferences(local[r].quiz_id, local[r].answers)) =>
            /\ pc[r] \in {"sb_questions", "done"}
            /\ "pending" \notin DOMAIN local[r]
            /\ written[r] = 0
            /\ pc[r] = "done" => resp[r].status = 400

\* A call with two answers, one about a question of its quiz and one about a
\* question of another quiz, failed with status 400.
C5_Witness ==
    \E r \in Req :
        /\ QuizWasFound(r)
        /\ pc[r] = "done"
        /\ resp[r].status = 400
        /\ Len(local[r].answers) = 2
        /\ BelongsTo(local[r].answers[1].question_id, local[r].quiz_id)
        /\ \E q \in quizzes :
               /\ q.quiz_id # local[r].quiz_id
               /\ BelongsTo(local[r].answers[2].question_id, q.quiz_id)
        /\ written[r] = 0

\* C6: a submit call with no answer, for a quiz that exists and with the
\* database accepting the commit, fails with status 400 (InvalidArgument).
C6_NoAnswerIsInvalidArgument ==
    \A r \in Req :
        (/\ QuizWasFound(r)
         /\ pc[r] = "done"
         /\ Len(local[r].answers) = 0
         /\ ~(resp[r].status = 500 /\ resp[r].detail = "commit failed"))
            => resp[r].status = 400

\* The rows the call in slot r has committed.
RowsOf(r) == {s \in submissions : s.user_id = local[r].user_id}

\* The selected answer is, character for character, the correct answer of the
\* stored question the row is about.
ExactlyRight(s) ==
    \E x \in questions :
        /\ x.question_id = s.question_id
        /\ x.correct_answer = s.selected_answer

\* C7: every persisted Submission is flagged correct iff its selected answer
\* is exactly the correct answer of its question; a successful submit has
\* committed one row per answer, its score is the number of its rows that are
\* flagged correct and its total is the number of its answers.
C7_GradingIsExactEquality ==
    /\ \A s \in submissions : s.is_correct <=> ExactlyRight(s)
    /\ \A r \in Req :
           (IsSubmit(r) /\ pc[r] = "done" /\ resp[r].status = 200) =>
               /\ resp[r].total_questions = Len(local[r].answers)
               /\ Cardinality(RowsOf(r)) = Len(local[r].answers)
               /\ \A i \in 1..Len(local[r].answers) :
                      \E s \in RowsOf(r) :
                          /\ s.question_id = local[r].answers[i].question_id
                          /\ s.selected_answer = local[r].answers[i].selected_answer
               /\ resp[r].score = Cardinality({s \in RowsOf(r) : s.is_correct})

\* A successful submit of two answers, "A" (right) and "a" (the right answer in
\* lower case): score 1 of 2.
C7_Witness ==
    \E r \in Req :
        /\ IsSubmit(r) /\ pc[r] = "done" /\ resp[r].status = 200
        /\ resp[r].score = 1
        /\ resp[r].total_questions = 2
        /\ \E s \in RowsOf(r) : s.selected_answer = "a" /\ ~s.is_correct
        /\ \E s \in RowsOf(r) : s.selected_answer = "A" /\ s.is_correct

\* C10: the submission log is append-only: no step removes or changes a
\* persisted Submission row; the commit of a submit call adds exactly one row
\* per answer of the call, a refused commit adds none, and no other step adds
\* a row.
C10_AppendOnly ==
    [][/\ submissions \subseteq submissions'
       /\ \A r \in Req :
              /\ (pc[r] = "sb_commit" /\ pc'[r] = "sb_respond") =>
                     Cardinality(submissions' \ submissions) = Len(local[r].answers)
              /\ (pc[r] = "sb_commit" /\ pc'[r] = "done") =>
                     submissions' = submissions
       /\ submissions' # submissions =>
              \E r \in Req : pc[r] = "sb_commit" /\ pc'[r] = "sb_respond"
      ]_vars

\* The same question of the same quiz was answered in two calls, and the rows
\* of both are in the log.
C10_Witness ==
    \E s1, s2 \in submissions :
        /\ s1.user_id # s2.user_id
        /\ s1.quiz_id = s2.quiz_id
        /\ s1.question_id = s2.question_id

----------------------------------------------------------------------------
(* Claims about search *)

IsSearch(r) == pc[r] = "done" /\ local[r].h = "search"

\* A finished search whose sort, type filter and query text are accepted.
WellFormedSearch(r) ==
    /\ IsSearch(r)
    /\ local[r].sort \in {"relevance", "name"}
    /\ \A i \in 1..Len(local[r].type) : local[r].type[i] \in {"txt", "pdf", "docx"}
    /\ Len(local[r].q) = 1

\* The table documents when it had its first k rows.
FirstDocuments(k) == SubSeq(documents, 1, k)

\* The least number of pages of size d that hold n rows.
CeilDiv(n, d) == CHOOSE k \in 0..n : k * d >= n /\ (k > 0 => (k - 1) * d < n)

\* res is the page of size limit at offset (page - 1) * limit of the rows
\* of docs that match, in an order that the sort allows.
IsPageOf(res, docs, q, file_types, sort, page, limit) ==
    \E o \in Orderings(docs, q, file_types, sort) :
        LET offset == (page - 1) * limit
            rest == IF Len(o) > offset THEN Len(o) - offset ELSE 0
        IN /\ Len(res) = (IF rest < limit THEN rest ELSE limit)
           /\ \A i \in 1..Len(res) :
                /\ res[i].file_id = docs[o[offset + i]].file_id
                /\ res[i].name = docs[o[offset + i]].name
                /\ res[i].file_type = docs[o[offset + i]].file_type

C12_NonPositiveIsInvalidArgument ==
    \A r \in Req :
        (WellFormedSearch(r) /\ (local[r].page <= 0 \/ local[r].limit <= 0)) =>
            resp[r].status = 400

----------------------------------------------------------------------------
(* Claims about reading a quiz *)

\* The correct answers that stored questions have.
ReadAnswers == {"A", "B"}

\* The questions tables that differ from table in correct answers at most.
AnswerVariants(table) ==
    {{[q EXCEPT !.correct_answer = f[q.question_id]] : q \in table} :
     f \in [{q.question_id : q \in table} -> ReadAnswers]}

GotQuiz(r) == pc[r] = "done" /\ local[r].h = "get" /\ resp[r].status = 200

\* C15: the response of get_quiz holds, for every question, its id, its text
\* and its options and nothing else, and it is a response that get_quiz may
\* give as well when the store differs in the correct answers of questions.
C15_AnswersNotDisclosed ==
    \A r \in Req :
        GotQuiz(r) =>
            /\ \A i \in 1..Len(resp[r].data.questions) :
                 DOMAIN resp[r].data.questions[i] =
                     {"question_id", "question", "options"}
            /\ \A table \in AnswerVariants(questions) :
                 resp[r].data \in GetQuizResponses(local[r].quiz, table)

\* A quiz of two questions with different correct answers has been read.
C15_Witness ==
    \E r \in Req :
        /\ GotQuiz(r)
        /\ Len(resp[r].data.questions) = 2
        /\ \E q1, q2 \in QuestionsWhereQuiz(questions, local[r].quiz_id) :
             q1.correct_answer # q2.correct_answer

----------------------------------------------------------------------------
(* Claims about analytics *)

\* A finished get_quiz_analytics for a quiz that exists, with dates that are
\* absent or in the format.
IsAnalytics(r) ==
    /\ pc[r] = "done"
    /\ local[r].h = "analytics"
    /\ \E q \in quizzes : q.quiz_id = local[r].quiz_id
    /\ local[r].start_date \in {""} \cup {DateTexts[d] : d \in DOMAIN DateTexts}
    /\ local[r].end_date \in {""} \cup {DateTexts[d] : d \in DOMAIN DateTexts}

\* The sum of field total_attempts, or of field correct_attempts, over entries
RECURSIVE SumAttempts(_)
SumAttempts(stats) ==
    IF stats = {} THEN 0
    ELSE LET e == CHOOSE e \in stats : TRUE
         IN e.total_attempts + SumAttempts(stats \ {e})

RECURSIVE SumCorrect(_)
SumCorrect(stats) ==
    IF stats = {} THEN 0
    ELSE LET e == CHOOSE e \in stats : TRUE
         IN e.correct_attempts + SumCorrect(stats \ {e})

\* C13: for an existing quiz with at least one submission that passes the
\* filter, get_quiz_analytics succeeds; total_submissions is the number of
\* those submissions and total_correct the number of them with is_correct;
\* the entries of question_stats partition them by question_id (one entry for
\* each question_id that occurs, counting its submissions and the correct
\* ones), so that the attempts sum to total_submissions and the correct
\* attempts to total_correct; accuracy_percentage is 100 * total_correct /
\* total_submissions rounded to hundredths.
C13_AnalyticsCounts ==
    \A r \in Req :
        LET F == FilteredSubmissions(submissions, local[r].quiz_id,
                                     local[r].start_date, local[r].end_date)
            stats == resp[r].question_stats
        IN (IsAnalytics(r) /\ F # {}) =>
              /\ resp[r].status = 200
              /\ resp[r].total_submissions = Cardinality(F)
              /\ resp[r].total_correct = Cardinality({x \in F : x.is_correct})
              /\ \A x \in F :
                   Cardinality({e \in stats : e.question_id = x.question_id}) = 1
              /\ \A e \in stats :
                   /\ e.total_attempts =
                          Cardinality({x \in F : x.question_id = e.question_id})
                   /\ e.total_attempts > 0
                   /\ e.correct_attempts =
                          Cardinality({x \in F : x.question_id = e.question_id
                                                 /\ x.is_correct})
              /\ SumAttempts(stats) = resp[r].total_submissions
              /\ SumCorrect(stats) = resp[r].total_correct
              /\ 2 * resp[r].accuracy_percentage * resp[r].total_submissions
                     <= 2 * 10000 * resp[r].total_correct + resp[r].total_submissions
              /\ 2 * resp[r].accuracy_percentage * resp[r].total_submissions
                     >= 2 * 10000 * resp[r].total_correct - resp[r].total_submissions

\* Ten submissions of a quiz of two questions, seven of them correct: the
\* accuracy is 70.00.
C13_Witness ==
    \E r \in Req :
        /\ IsAnalytics(r)
        /\ resp[r].status = 200
        /\ resp[r].total_submissions = 10
        /\ resp[r].total_correct = 7
        /\ resp[r].accuracy_percentage = 7000
        /\ Cardinality(resp[r].question_stats) = 2

\* The day that a date text names.
DayOf(text) == CHOOSE d \in DOMAIN DateTexts : DateTexts[d] = text

\* The submissions of the quiz whose day of creation is not before the start
\* date and not after the end date, for the dates that are given.
CreatedInRange(r) ==
    {x \in submissions :
        /\ x.quiz_id = local[r].quiz_id
        /\ local[r].start_date # "" => DayOf(local[r].start_date) <= x.created_at.day
        /\ local[r].end_date # "" => x.created_at.day <= DayOf(local[r].end_date)}

\* C14: get_quiz_analytics counts a submission iff the day of its creation
\* lies between the start date and the end date, both included: it answers
\* with the number of those submissions, and with 404 when there is none.
C14_InclusiveDateBounds ==
    \A r \in Req :
        IsAnalytics(r) =>
            IF CreatedInRange(r) = {}
            THEN resp[r].status = 404
            ELSE /\ resp[r].status = 200
                 /\ resp[r].total_submissions = Cardinality(CreatedInRange(r))

====
